---- MODULE Spec2Model ----
(***************************************************************************)
(* Model of the dream consensus integration layer:                         *)
(*   - AgentRegistry   (consensus/src/AgentRegistry.cpp)                   *)
(*   - DreamConsensus  (consensus/src/DreamConsensus.cpp)                  *)
(* Strings that the code only compares, stores or joins (names, roles,     *)
(* hashes, permissions, block data) are TLA+ strings.  Addresses, which    *)
(* the code matches against a regular expression character by character,   *)
(* are held as runs of characters.                                         *)
(***************************************************************************)
EXTENDS Integers, Sequences, FiniteSets, TLC

VARIABLES
    \* ---- AgentRegistry (AgentRegistry.h:45-48)
    agents_,          \* unordered_map<string, AgentInfo>: name -> AgentInfo
    agentOrder,       \* the iteration order of agents_ (unspecified by the container)
    tokens_,          \* unordered_map<string, TokenInfo>: symbol -> TokenInfo
    eventHandler_,    \* the installed handler, "none" for an empty std::function
    events,           \* handler invocations so far, oldest first
    regCall,          \* the last registry call and what it returned
    registering,      \* per calling thread: its registerAgent call in progress
    \* ---- DreamConsensus (DreamConsensus.h:29-39)
    engine_,          \* unique_ptr<ConsensusEngine>: the owned engine, or NullEngine
    agent_,           \* shared_ptr<BlockConsensusAgent>: "null", or the agent of the
                      \* owned engine ("current") or of a released one ("stale")
    currentHeight_,
    latestBlockHash_,
    nodeCount_,
    requiredSignatures_,
    \* ---- the external engine and the calling threads, as the controller meets them
    constructed,      \* number of engines constructed so far
    started,          \* number of engines on which start() has returned
    submitted,        \* number of blobs handed to proposeBlock, and the last one
    delivered,        \* the last finalization callback the engine has made
    finalizing,       \* the finalization callback in progress, or NoCall
    observed,         \* what the reading thread has read in its current snapshot
    initCalls,        \* number of initialize calls made
    lastCall,         \* the last controller call and how it ended
    lifetime          \* whether the controller is alive, and the engines it has
                      \* shut down (exitGracefully) and released so far

regVars == <<agents_, agentOrder, tokens_, eventHandler_, events, regCall,
             registering>>
ctlVars == <<engine_, agent_, currentHeight_, latestBlockHash_, nodeCount_,
             requiredSignatures_, constructed, started, submitted, delivered,
             finalizing, observed, initCalls, lastCall, lifetime>>
vars == <<agents_, agentOrder, tokens_, eventHandler_, events, regCall,
          registering, engine_, agent_, currentHeight_, latestBlockHash_,
          nodeCount_, requiredSignatures_, constructed, started, submitted,
          delivered, finalizing, observed, initCalls, lastCall, lifetime>>

-----------------------------------------------------------------------------
(* Bounds of the model *)

MaxInit == 2          \* initialize calls per controller
MaxHeight == 2        \* highest block number the engine finalizes
MaxProposals == 1     \* blocks accepted by proposeDreamBlock

-----------------------------------------------------------------------------
(* Characters and addresses *)

HexLen == 40

HexChars == {"0", "1", "2", "3", "4", "5", "6", "7", "8", "9",
             "a", "b", "c", "d", "e", "f",
             "A", "B", "C", "D", "E", "F"}

\* An address is held as its runs of equal characters, <<character, length>>,
\* no two adjacent runs of the same character and none empty, so that two
\* addresses are equal as strings exactly when they are equal as values.
Run(c, n) == <<c, n>>

Rep(c, n) == [i \in 1..n |-> c]

\* The characters of the string, one by one.
RECURSIVE Chars(_)
Chars(runs) ==
    IF runs = <<>>
    THEN <<>>
    ELSE Rep(Head(runs)[1], Head(runs)[2]) \o Chars(Tail(runs))

AddrA == <<Run("0", 1), Run("x", 1), Run("a", HexLen)>>
AddrMixed == <<Run("0", 1), Run("x", 1), Run("B", HexLen - 1), Run("7", 1)>>
AddrShort == <<Run("0", 1), Run("x", 1), Run("a", HexLen - 1)>>
AddrLong == <<Run("0", 1), Run("x", 1), Run("a", HexLen + 1)>>
AddrZZZ == <<Run("0", 1), Run("x", 1), Run("Z", 3)>>
AddrBadDigit == <<Run("0", 1), Run("x", 1), Run("a", HexLen - 1), Run("g", 1)>>
AddrUpperX == <<Run("0", 1), Run("X", 1), Run("a", HexLen)>>
AddrNoPrefix == <<Run("a", HexLen + 2)>>
EmptyString == <<>>

ValidAddresses == {AddrA, AddrMixed}
InvalidAddresses == {AddrShort, AddrLong, AddrZZZ, AddrBadDigit, AddrUpperX,
                     AddrNoPrefix, EmptyString}
Addresses == ValidAddresses \cup InvalidAddresses

-----------------------------------------------------------------------------
(* AgentRegistry: values *)

Handlers == {"h1", "h2"}
RequiredPermission == "propose"
Permissions == {"propose", "vote", "admin"}

AgentInfo(address, role, permissions) ==
    [address |-> address, role |-> role, permissions |-> permissions]

TokenInfo(address, totalSupply, decimals) ==
    [address |-> address, totalSupply |-> totalSupply, decimals |-> decimals]

NoInfo == AgentInfo(EmptyString, "", <<>>)

\* The configuration documents the registry is constructed from: the parsed
\* JSON, agents and tokens keyed by name and symbol.
EmptyMap == [n \in {} |-> NoInfo]

CfgEmpty ==
    [agents |-> EmptyMap,
     tokens |-> [s \in {"DREAM"} |-> TokenInfo(AddrMixed, 1000, 18)]]

CfgAlice ==
    [agents |-> [n \in {"alice"} |-> AgentInfo(AddrA, "dreamer", <<"propose">>)],
     tokens |-> [s \in {"DREAM"} |-> TokenInfo(AddrMixed, 1000, 18)]]

CfgShared ==
    [agents |-> [n \in {"alice", "bob"} |->
                    IF n = "alice" THEN AgentInfo(AddrA, "dreamer", <<"vote">>)
                                   ELSE AgentInfo(AddrA, "oracle", <<"propose">>)],
     tokens |-> EmptyMap]

CfgBadAddress ==
    [agents |-> [n \in {"carol"} |-> AgentInfo(AddrZZZ, "dreamer", <<"propose">>)],
     tokens |-> [s \in {"DREAM"} |-> TokenInfo(AddrShort, 1000, 18)]]

Configs == {CfgEmpty, CfgAlice, CfgShared, CfgBadAddress}

\* The arguments callers pass to registerAgent.
RegNames == {"alice", "bob"}
RegAddresses == {AddrA, AddrMixed, AddrZZZ, AddrShort}
RegPermissions == {<<>>, <<"vote", "propose">>}
RegInfos == {AgentInfo(a, "dreamer", ps) : a \in RegAddresses, ps \in RegPermissions}

\* Every order in which a container holding the keys S can be iterated.
Orders(S) ==
    {o \in [1..Cardinality(S) -> S] : \A i, j \in 1..Cardinality(S) : o[i] = o[j] => i = j}

-----------------------------------------------------------------------------
(* AgentRegistry: operations *)

\* The number of leading characters of s, from position i on, that match
\* [0-9a-fA-F], up to n of them.
RECURSIVE MatchHexRun(_, _, _)
MatchHexRun(s, i, n) ==
    IF n = 0 \/ i > Len(s) \/ s[i] \notin HexChars
    THEN 0
    ELSE 1 + MatchHexRun(s, i + 1, n - 1)

\* A validator that takes any number of hex characters after the prefix.
validateAddress_anyLength(address) ==
    LET s == Chars(address)
    IN /\ Len(s) > 2
       /\ s[1] = "0"
       /\ s[2] = "x"
       /\ MatchHexRun(s, 3, Len(s)) = Len(s) - 2

\* std::regex_match(address, "^0x[0-9a-fA-F]{40}$"): the whole string matches.
validateAddress(address) ==
    LET s == Chars(address)
    IN /\ Len(s) >= 2
       /\ s[1] = "0"
       /\ s[2] = "x"
       /\ MatchHexRun(s, 3, HexLen) = HexLen
       /\ Len(s) = 2 + HexLen

\* std::find over the permissions vector.
Find(permissions, permission) ==
    \E i \in 1..Len(permissions) : permissions[i] = permission

\* The loop of hasPermission from position i of the iteration order on: the
\* first entry whose address matches decides.
RECURSIVE HasPermissionFrom(_, _, _, _, _)
HasPermissionFrom(map, order, i, agentAddress, permission) ==
    IF i > Len(order)
    THEN FALSE
    ELSE IF map[order[i]].address = agentAddress
         THEN Find(map[order[i]].permissions, permission)
         ELSE HasPermissionFrom(map, order, i + 1, agentAddress, permission)

\* A lookup that goes on past a matching entry that lacks the permission.
hasPermission_anyMatch(agentAddress, permission) ==
    \E i \in 1..Len(agentOrder) :
        /\ agents_[agentOrder[i]].address = agentAddress
        /\ Find(agents_[agentOrder[i]].permissions, permission)

hasPermission(agentAddress, permission) ==
    HasPermissionFrom(agents_, agentOrder, 1, agentAddress, permission)

getAgentAddressIn(map, name) ==
    IF name \in DOMAIN map THEN map[name].address ELSE EmptyString

getAgentAddress(name) == getAgentAddressIn(agents_, name)

getAgentPermissions(name) ==
    IF name \in DOMAIN agents_ THEN agents_[name].permissions ELSE <<>>

getTokenAddress(symbol) ==
    IF symbol \in DOMAIN tokens_ THEN tokens_[symbol].address ELSE EmptyString

isRegisteredAgent(address) ==
    \E i \in 1..Len(agentOrder) : agents_[agentOrder[i]].address = address

RegCall(op, name, info, result) ==
    [op |-> op, name |-> name, info |-> info, result |-> result]

\* The threads that call registerAgent at the same time, and where one of
\* them is in its call: not in it ("idle"), past the two checks of lines
\* 44-50 ("checked"), or returned ("done").
Threads == {"t1", "t2"}

Registering(pc, name, info, result) ==
    [pc |-> pc, name |-> name, info |-> info, result |-> result]

NotRegistering == Registering("idle", "", NoInfo, FALSE)

\* The registry right after construction from the configuration cfg.
loadConfig(cfg) ==
    /\ agents_ = [n \in DOMAIN cfg.agents |->
                    AgentInfo(cfg.agents[n].address, cfg.agents[n].role,
                              cfg.agents[n].permissions)]
    /\ agentOrder \in Orders(DOMAIN cfg.agents)
    /\ tokens_ = [s \in DOMAIN cfg.tokens |->
                    TokenInfo(cfg.tokens[s].address, cfg.tokens[s].totalSupply,
                              cfg.tokens[s].decimals)]
    /\ eventHandler_ = "none"
    /\ events = <<>>
    /\ regCall = RegCall("AgentRegistry", "", NoInfo, TRUE)
    /\ registering = [t \in Threads |-> NotRegistering]

\* notifyAgentEvent: the handler, when one is installed, runs synchronously;
\* visibleAddress is what getAgentAddress(agent) returns to it, the registry
\* being the map `map` at that moment.
notifyAgentEvent(map, agent, action) ==
    IF eventHandler_ # "none"
    THEN Append(events, [handler |-> eventHandler_, agent |-> agent,
                         action |-> action,
                         visibleAddress |-> getAgentAddressIn(map, agent)])
    ELSE events

\* A registerAgent without the check that the name is new.
registerAgent_noNameCheck(name, info) ==
    IF ~validateAddress(info.address)
    THEN /\ regCall' = RegCall("registerAgent", name, info, FALSE)
         /\ UNCHANGED <<agents_, agentOrder, tokens_, eventHandler_, events>>
    ELSE /\ agents_' = [n \in DOMAIN agents_ \cup {name} |->
                           IF n = name THEN info ELSE agents_[n]]
         /\ agentOrder' \in Orders(DOMAIN agents_ \cup {name})
         /\ events' = notifyAgentEvent(agents_', name, "registered")
         /\ regCall' = RegCall("registerAgent", name, info, TRUE)
         /\ UNCHANGED <<tokens_, eventHandler_>>

\* A registerAgent that notifies the handler before it inserts the entry.
registerAgent_notifyBeforeInsert(name, info) ==
    IF name \in DOMAIN agents_
    THEN /\ regCall' = RegCall("registerAgent", name, info, FALSE)
         /\ UNCHANGED <<agents_, agentOrder, tokens_, eventHandler_, events>>
    ELSE IF ~validateAddress(info.address)
    THEN /\ regCall' = RegCall("registerAgent", name, info, FALSE)
         /\ UNCHANGED <<agents_, agentOrder, tokens_, eventHandler_, events>>
    ELSE /\ events' = notifyAgentEvent(agents_, name, "registered")
         /\ agents_' = [n \in DOMAIN agents_ \cup {name} |->
                           IF n = name THEN info ELSE agents_[n]]
         /\ agentOrder' \in Orders(DOMAIN agents_ \cup {name})
         /\ regCall' = RegCall("registerAgent", name, info, TRUE)
         /\ UNCHANGED <<tokens_, eventHandler_>>

registerAgent(name, info) ==
    IF name \in DOMAIN agents_
    THEN /\ regCall' = RegCall("registerAgent", name, info, FALSE)
         /\ UNCHANGED <<agents_, agentOrder, tokens_, eventHandler_, events>>
    ELSE IF ~validateAddress(info.address)
    THEN /\ regCall' = RegCall("registerAgent", name, info, FALSE)
         /\ UNCHANGED <<agents_, agentOrder, tokens_, eventHandler_, events>>
    ELSE /\ agents_' = [n \in DOMAIN agents_ \cup {name} |->
                           IF n = name THEN info ELSE agents_[n]]
         /\ agentOrder' \in Orders(DOMAIN agents_ \cup {name})
         /\ events' = notifyAgentEvent(agents_', name, "registered")
         /\ regCall' = RegCall("registerAgent", name, info, TRUE)
         /\ UNCHANGED <<tokens_, eventHandler_>>

\* registerAgent as a thread runs it next to another thread: the class has
\* no lock, so the checks (lines 44-50) and the insertion with its
\* notification (lines 52-54) of one call are separate steps, and a step of
\* another call can come between them.  This is lines 44-50.
registerAgent_check(t, name, info) ==
    /\ registering[t].pc = "idle"
    /\ IF name \in DOMAIN agents_ \/ ~validateAddress(info.address)
       THEN /\ registering' =
                  [registering EXCEPT ![t] = Registering("done", name, info, FALSE)]
            /\ regCall' = RegCall("registerAgent", name, info, FALSE)
       ELSE /\ registering' =
                  [registering EXCEPT ![t] = Registering("checked", name, info, FALSE)]
            /\ UNCHANGED regCall
    /\ UNCHANGED <<agents_, agentOrder, tokens_, eventHandler_, events>>

\* Lines 52-54: agents_[name] = info stores the entry, over an entry that
\* another call has stored under the name in the meantime.
registerAgent_insert(t) ==
    LET name == registering[t].name
        info == registering[t].info
    IN /\ registering[t].pc = "checked"
       /\ agents_' = [n \in DOMAIN agents_ \cup {name} |->
                         IF n = name THEN info ELSE agents_[n]]
       /\ agentOrder' \in IF name \in DOMAIN agents_
                           THEN {agentOrder}
                           ELSE Orders(DOMAIN agents_ \cup {name})
       /\ events' = notifyAgentEvent(agents_', name, "registered")
       /\ regCall' = RegCall("registerAgent", name, info, TRUE)
       /\ registering' =
             [registering EXCEPT ![t] = Registering("done", name, info, TRUE)]
       /\ UNCHANGED <<tokens_, eventHandler_>>

\* A setAgentEventHandler that keeps a handler that is already installed.
setAgentEventHandler_keepInstalled(handler) ==
    /\ eventHandler_' = IF eventHandler_ = "none" THEN handler ELSE eventHandler_
    /\ regCall' = RegCall("setAgentEventHandler", handler, NoInfo, TRUE)
    /\ UNCHANGED <<agents_, agentOrder, tokens_, events>>

setAgentEventHandler(handler) ==
    /\ eventHandler_' = handler
    /\ regCall' = RegCall("setAgentEventHandler", handler, NoInfo, TRUE)
    /\ UNCHANGED <<agents_, agentOrder, tokens_, events>>

-----------------------------------------------------------------------------
(* DreamConsensus: values *)

\* The (nodeCount, requiredSignatures) pairs callers pass to initialize.
InitArgs == {<<2, 1>>, <<2, 2>>, <<1, 2>>, <<2, 0>>}

\* Where an initialize call ends: normally, or with an exception thrown by
\* the external call at that step.
InitOutcomes == {"ok", "initBLSCrypto", "parseTestConfigFile", "createAgent",
                 "onBlockProposed", "onBlockFinalized", "start"}

ProposerIds == {"alice", "alice:x"}
Payloads == {"dream", "x:dream"}
Hashes == {"hA", "hB"}

\* An engine object: its status and the callbacks registered on its agent.
Engine(status, cbProposed, cbFinalized) ==
    [status |-> status, cbProposed |-> cbProposed, cbFinalized |-> cbFinalized]

NullEngine == Engine("null", FALSE, FALSE)

Finalization(blockNumber, blockHash) ==
    [blockNumber |-> blockNumber, blockHash |-> blockHash]

NoCall == Finalization(0, "")
Unread == "unread"
NoSubmission ==
    [blockData |-> "", dreamerId |-> "", dreamData |-> "", agent |-> "null",
     authorized |-> FALSE, running |-> FALSE]

Call(op, result) == [op |-> op, result |-> result]

\* The constructor: no engine, no agent, height 0, empty hash.
DreamConsensus ==
    /\ engine_ = NullEngine
    /\ agent_ = "null"
    /\ currentHeight_ = 0
    /\ latestBlockHash_ = ""
    /\ nodeCount_ = 0
    /\ requiredSignatures_ = 0
    /\ constructed = 0
    /\ started = 0
    /\ submitted = [count |-> 0, last |-> NoSubmission]
    /\ delivered = NoCall
    /\ finalizing = NoCall
    /\ observed = [height |-> -1, expected |-> "", hash |-> Unread]
    /\ initCalls = 0
    /\ lastCall = Call("DreamConsensus", "ok")
    /\ lifetime = [alive |-> TRUE, exited |-> 0, released |-> 0]

-----------------------------------------------------------------------------
(* DreamConsensus: operations *)

isConsensusRunning ==
    engine_ # NullEngine /\ engine_.status = "working"

\* The position of each external call of initialize, in program order.
StepOf(outcome) ==
    CASE outcome = "initBLSCrypto" -> 1
      [] outcome = "parseTestConfigFile" -> 2
      [] outcome = "createAgent" -> 3
      [] outcome = "onBlockProposed" -> 4
      [] outcome = "onBlockFinalized" -> 5
      [] outcome = "start" -> 6
      [] OTHER -> 7

\* The call named step has returned normally when initialize ends in outcome.
Passed(outcome, step) == StepOf(outcome) > StepOf(step)

initialize(nodeCount, requiredSignatures, outcome) ==
    LET engineMade == Passed(outcome, "initBLSCrypto")
        agentMade == Passed(outcome, "createAgent")
        replaced == engineMade /\ engine_ # NullEngine
    IN /\ initCalls < MaxInit
       /\ initCalls' = initCalls + 1
       /\ nodeCount_' = nodeCount
       /\ requiredSignatures_' = requiredSignatures
       /\ engine_' =
            IF engineMade
            THEN Engine(IF outcome = "ok" THEN "working" ELSE "constructed",
                        Passed(outcome, "onBlockProposed"),
                        Passed(outcome, "onBlockFinalized"))
            ELSE engine_
       /\ agent_' =
            IF agentMade THEN "current"
            ELSE IF engineMade /\ agent_ = "current" THEN "stale"
            ELSE agent_
       /\ constructed' = IF engineMade THEN constructed + 1 ELSE constructed
       /\ started' = IF outcome = "ok" THEN started + 1 ELSE started
       /\ lastCall' = Call("initialize", IF outcome = "ok" THEN "ok" ELSE "threw")
       /\ lifetime' = IF replaced
                      THEN [lifetime EXCEPT !.released = @ + 1]
                      ELSE lifetime
       /\ UNCHANGED <<currentHeight_, latestBlockHash_, submitted, delivered,
                      finalizing, observed>>

\* What reaches agent_->proposeBlock: the blob, the agent it is handed to,
\* whether the registry grants the proposer (by the address registered under
\* the proposer's id) the permission at that moment, and whether the
\* controller reports the consensus as running.
Submission(dreamerId, dreamData) ==
    [blockData |-> dreamerId \o ":" \o dreamData,
     dreamerId |-> dreamerId,
     dreamData |-> dreamData,
     agent |-> agent_,
     authorized |-> hasPermission(getAgentAddress(dreamerId), RequiredPermission),
     running |-> isConsensusRunning]

\* A proposeDreamBlock without the check of engine_ and agent_.
proposeDreamBlock_noGuard(dreamerId, dreamData) ==
    /\ submitted.count < MaxProposals
    /\ submitted' = [count |-> submitted.count + 1,
                     last |-> Submission(dreamerId, dreamData)]
    /\ lastCall' = Call("proposeDreamBlock", "ok")
    /\ UNCHANGED <<engine_, agent_, currentHeight_, latestBlockHash_,
                   nodeCount_, requiredSignatures_, constructed, started,
                   delivered, finalizing, observed, initCalls>>

\* A proposeDreamBlock that drops the engine and the agent when it fails.
proposeDreamBlock_resetsOnFailure(dreamerId, dreamData) ==
    IF engine_ = NullEngine \/ agent_ = "null"
    THEN /\ lastCall' = Call("proposeDreamBlock", "NotRunning")
         /\ engine_' = NullEngine
         /\ agent_' = "null"
         /\ UNCHANGED <<currentHeight_, latestBlockHash_,
                        nodeCount_, requiredSignatures_, constructed, started,
                        submitted, delivered, finalizing, observed, initCalls>>
    ELSE /\ submitted.count < MaxProposals
         /\ submitted' = [count |-> submitted.count + 1,
                          last |-> Submission(dreamerId, dreamData)]
         /\ lastCall' = Call("proposeDreamBlock", "ok")
         /\ UNCHANGED <<engine_, agent_, currentHeight_, latestBlockHash_,
                        nodeCount_, requiredSignatures_, constructed, started,
                        delivered, finalizing, observed, initCalls>>

proposeDreamBlock(dreamerId, dreamData) ==
    IF engine_ = NullEngine \/ agent_ = "null"
    THEN /\ lastCall' = Call("proposeDreamBlock", "NotRunning")
         /\ UNCHANGED <<engine_, agent_, currentHeight_, latestBlockHash_,
                        nodeCount_, requiredSignatures_, constructed, started,
                        submitted, delivered, finalizing, observed, initCalls>>
    ELSE /\ submitted.count < MaxProposals
         /\ submitted' = [count |-> submitted.count + 1,
                          last |-> Submission(dreamerId, dreamData)]
         /\ lastCall' = Call("proposeDreamBlock", "ok")
         /\ UNCHANGED <<engine_, agent_, currentHeight_, latestBlockHash_,
                        nodeCount_, requiredSignatures_, constructed, started,
                        delivered, finalizing, observed, initCalls>>

\* The reading thread takes a snapshot: getBlockHeight(), then
\* getLatestDreamBlock().  expected is the hash the engine delivered with
\* the height that was read (empty for the height of construction).
getBlockHeight ==
    /\ observed' = [height |-> currentHeight_,
                    expected |-> IF currentHeight_ = delivered.blockNumber
                                 THEN delivered.blockHash ELSE "",
                    hash |-> Unread]
    /\ UNCHANGED <<engine_, agent_, currentHeight_, latestBlockHash_,
                   nodeCount_, requiredSignatures_, constructed, started,
                   submitted, delivered, finalizing, initCalls, lastCall>>

getLatestDreamBlock ==
    /\ observed' = [observed EXCEPT !.hash = latestBlockHash_]
    /\ UNCHANGED <<engine_, agent_, currentHeight_, latestBlockHash_,
                   nodeCount_, requiredSignatures_, constructed, started,
                   submitted, delivered, finalizing, initCalls, lastCall>>

\* The engine calls back only once started, and only a callback that is
\* registered on its agent.
Calls(callback) ==
    /\ engine_.status = "working"
    /\ engine_[callback]

\* An onBlockProposed that records the proposed block as the latest block.
onBlockProposed_storesHash(blockHash) ==
    /\ Calls("cbProposed")
    /\ latestBlockHash_' = blockHash
    /\ lastCall' = Call("onBlockProposed", "ok")
    /\ UNCHANGED <<engine_, agent_, currentHeight_, nodeCount_,
                   requiredSignatures_, constructed, started, submitted,
                   delivered, finalizing, observed, initCalls>>

onBlockProposed(blockHash) ==
    /\ Calls("cbProposed")
    /\ lastCall' = Call("onBlockProposed", "ok")
    /\ UNCHANGED <<engine_, agent_, currentHeight_, latestBlockHash_,
                   nodeCount_, requiredSignatures_, constructed, started,
                   submitted, delivered, finalizing, observed, initCalls>>

\* onBlockFinalized runs on an engine thread and takes no lock: its two
\* stores are separate steps.  This is line 92; the engine delivers block
\* numbers in strictly increasing order.
onBlockFinalized_height(blockNumber, blockHash) ==
    /\ Calls("cbFinalized")
    /\ finalizing = NoCall
    /\ blockNumber > delivered.blockNumber
    /\ currentHeight_' = blockNumber
    /\ finalizing' = Finalization(blockNumber, blockHash)
    /\ delivered' = Finalization(blockNumber, blockHash)
    /\ UNCHANGED <<engine_, agent_, latestBlockHash_, nodeCount_,
                   requiredSignatures_, constructed, started, submitted,
                   observed, initCalls, lastCall>>

\* A callback that returns without storing the hash.
onBlockFinalized_hash_notStored ==
    /\ finalizing # NoCall
    /\ finalizing' = NoCall
    /\ lastCall' = Call("onBlockFinalized", "ok")
    /\ UNCHANGED <<engine_, agent_, currentHeight_, latestBlockHash_, nodeCount_,
                   requiredSignatures_, constructed, started, submitted,
                   delivered, observed, initCalls>>

\* Line 93, and the return of the callback.
onBlockFinalized_hash ==
    /\ finalizing # NoCall
    /\ latestBlockHash_' = finalizing.blockHash
    /\ finalizing' = NoCall
    /\ lastCall' = Call("onBlockFinalized", "ok")
    /\ UNCHANGED <<engine_, agent_, currentHeight_, nodeCount_,
                   requiredSignatures_, constructed, started, submitted,
                   delivered, observed, initCalls>>

\* The engine stops working (a fatal failure inside it): isWorking() is
\* false from then on.
engineStops ==
    /\ engine_.status = "working"
    /\ engine_' = [engine_ EXCEPT !.status = "stopped"]
    /\ UNCHANGED <<agent_, currentHeight_, latestBlockHash_, nodeCount_,
                   requiredSignatures_, constructed, started, submitted,
                   delivered, finalizing, observed, initCalls, lastCall>>

\* The destructor: exitGracefully on the owned engine if there is one; then
\* the members are destroyed, which releases the engine and the agent.  It
\* runs when no callback is in progress.
DreamConsensus_destructor ==
    LET owned == IF engine_ # NullEngine THEN 1 ELSE 0
    IN /\ finalizing = NoCall
       /\ lifetime' = [alive |-> FALSE,
                       exited |-> lifetime.exited + owned,
                       released |-> lifetime.released + owned]
       /\ engine_' = NullEngine
       /\ agent_' = "null"
       /\ lastCall' = Call("~DreamConsensus", "ok")
       /\ UNCHANGED <<currentHeight_, latestBlockHash_, nodeCount_,
                      requiredSignatures_, constructed, started, submitted,
                      delivered, finalizing, observed, initCalls>>

-----------------------------------------------------------------------------
(* Specifications *)

Init ==
    /\ \E cfg \in Configs : loadConfig(cfg)
    /\ DreamConsensus

\* The controller next to a registry loaded from the empty configuration:
\* no proposer has the permission until it is registered with it.
InitRetry ==
    /\ loadConfig(CfgEmpty)
    /\ DreamConsensus

\* The controller next to a registry loaded from the configuration that
\* grants alice the permission to propose.
InitConsensus ==
    /\ loadConfig(CfgAlice)
    /\ DreamConsensus

RegisterAgent ==
    /\ \E name \in RegNames, info \in RegInfos : registerAgent(name, info)
    /\ UNCHANGED registering
    /\ UNCHANGED ctlVars

RegisterAgent_check ==
    /\ \E t \in Threads, name \in RegNames, info \in RegInfos :
          registerAgent_check(t, name, info)
    /\ UNCHANGED ctlVars

RegisterAgent_insert ==
    /\ \E t \in Threads : registerAgent_insert(t)
    /\ UNCHANGED ctlVars

SetAgentEventHandler ==
    /\ \E handler \in Handlers \cup {"none"} : setAgentEventHandler(handler)
    /\ UNCHANGED registering
    /\ UNCHANGED ctlVars

\* A controller operation is called, and a callback made, on a controller
\* that has not been destroyed; only initialize and the destructor release
\* engines.
Alive == lifetime.alive /\ UNCHANGED lifetime

\* A proposer is registered with the permission to propose.
GrantPermission ==
    /\ \E name \in ProposerIds, address \in {AddrA, AddrShort} :
          registerAgent(name, AgentInfo(address, "dreamer", <<RequiredPermission>>))
    /\ UNCHANGED registering
    /\ UNCHANGED ctlVars

Initialize ==
    /\ lifetime.alive
    /\ \E args \in InitArgs, outcome \in InitOutcomes :
          initialize(args[1], args[2], outcome)
    /\ UNCHANGED regVars

ProposeDreamBlock ==
    /\ \E dreamerId \in ProposerIds, dreamData \in Payloads :
          proposeDreamBlock(dreamerId, dreamData)
    /\ Alive
    /\ UNCHANGED regVars

GetBlockHeight == getBlockHeight /\ Alive /\ UNCHANGED regVars

GetLatestDreamBlock == getLatestDreamBlock /\ Alive /\ UNCHANGED regVars

OnBlockProposed ==
    /\ \E blockHash \in Hashes : onBlockProposed(blockHash)
    /\ Alive
    /\ UNCHANGED regVars

OnBlockFinalized_height ==
    /\ \E blockNumber \in 1..MaxHeight, blockHash \in Hashes :
          onBlockFinalized_height(blockNumber, blockHash)
    /\ Alive
    /\ UNCHANGED regVars

OnBlockFinalized_hash == onBlockFinalized_hash /\ Alive /\ UNCHANGED regVars

EngineStops == engineStops /\ Alive /\ UNCHANGED regVars

Destroy ==
    /\ lifetime.alive
    /\ DreamConsensus_destructor
    /\ UNCHANGED regVars

NextRegistry == RegisterAgent \/ SetAgentEventHandler

\* The calls of one calling thread and the engine's callbacks.
NextConsensus ==
    \/ Initialize
    \/ ProposeDreamBlock
    \/ OnBlockProposed
    \/ OnBlockFinalized_height
    \/ OnBlockFinalized_hash
    \/ EngineStops

\* A thread reading the height and the latest block while the engine
\* finalizes.
NextReaders ==
    \/ Initialize
    \/ GetBlockHeight
    \/ GetLatestDreamBlock
    \/ OnBlockFinalized_height
    \/ OnBlockFinalized_hash
    \/ EngineStops

\* Every controller operation next to the engine's callbacks: the caller,
\* the reader and the engine at once.
NextFrame ==
    \/ Initialize
    \/ ProposeDreamBlock
    \/ GetBlockHeight
    \/ GetLatestDreamBlock
    \/ OnBlockProposed
    \/ OnBlockFinalized_height
    \/ OnBlockFinalized_hash

\* The life of one controller: initialize calls, the engine stopping, and
\* the destructor.
NextLifecycle ==
    \/ Initialize
    \/ EngineStops
    \/ Destroy

\* Two threads, each making one registerAgent call, while handlers are
\* installed.
NextConcurrent ==
    \/ RegisterAgent_check
    \/ RegisterAgent_insert
    \/ SetAgentEventHandler

\* A caller that proposes, and initializes the controller or registers the
\* proposer when that is what was missing.
NextRetry ==
    \/ GrantPermission
    \/ Initialize
    \/ ProposeDreamBlock

Next ==
    \/ NextRetry
    \/ NextRegistry
    \/ NextConsensus
    \/ NextReaders
    \/ NextFrame
    \/ NextLifecycle
    \/ NextConcurrent

SpecRegistry == Init /\ [][NextRegistry]_vars
SpecConsensus == InitConsensus /\ [][NextConsensus]_vars
SpecReaders == InitConsensus /\ [][NextReaders]_vars
SpecFrame == InitConsensus /\ [][NextFrame]_vars
SpecLifecycle == InitConsensus /\ [][NextLifecycle]_vars
SpecConcurrent == InitConsensus /\ [][NextConcurrent]_vars
SpecRetry == InitRetry /\ [][NextRetry]_vars
Spec == Init /\ [][Next]_vars

-----------------------------------------------------------------------------
(* Properties *)

\* The address format of the specification: "0x", then exactly 40
\* hexadecimal characters of either case.
IsAddressFormat(address) ==
    LET s == Chars(address)
    IN /\ Len(s) = HexLen + 2
       /\ s[1] = "0"
       /\ s[2] = "x"
       /\ \A i \in 3..Len(s) : s[i] \in HexChars

\* C1: a payload is handed to the engine only if the registry grants the
\* "propose" permission to the proposer's address at the time of the call.
C1_OnlyAuthorizedSubmitted ==
    submitted.count > 0 => submitted.last.authorized

\* C2: as long as initialize has never been called, every proposeDreamBlock
\* ends with NotRunning, nothing is submitted, and the height and the latest
\* block hash stay as constructed.
C2_NotRunningBeforeInitialize ==
    initCalls = 0 =>
        /\ lastCall.op = "proposeDreamBlock" => lastCall.result = "NotRunning"
        /\ submitted.count = 0
        /\ currentHeight_ = 0
        /\ latestBlockHash_ = ""

C2_Witness ==
    /\ initCalls = 0
    /\ lastCall = Call("proposeDreamBlock", "NotRunning")

\* C3: initialize with requiredSignatures = 0 or requiredSignatures >
\* nodeCount fails (it does not return normally) and leaves the session
\* uninitialized: isConsensusRunning() is false and, on a fresh controller,
\* no engine has been constructed.  (initialize stores its arguments in
\* nodeCount_ and requiredSignatures_ first thing.)
C3_InvalidConfigRejected ==
    (/\ lastCall.op = "initialize"
     /\ (requiredSignatures_ = 0 \/ requiredSignatures_ > nodeCount_))
    => /\ lastCall.result # "ok"
       /\ ~isConsensusRunning
       /\ initCalls = 1 => constructed = 0

\* C4: an initialize call made after one that succeeded is rejected: it
\* does not return normally, constructs and starts no engine, and leaves
\* nodeCount and requiredSignatures as the successful call set them.
C4_SecondInitializeRejected ==
    [][(started >= 1 /\ initCalls' = initCalls + 1)
       => /\ lastCall'.result # "ok"
          /\ constructed' = constructed
          /\ started' = started
          /\ nodeCount_' = nodeCount_
          /\ requiredSignatures_' = requiredSignatures_]_vars

\* C5: a reader that has read the height and then the latest block hash
\* holds the hash that was delivered with that height, never the hash of
\* another finalization.
C5_PairReadAtomically ==
    (observed.height # -1 /\ observed.hash # Unread)
    => observed.hash = observed.expected

\* C6: with finalization callbacks delivered in strictly increasing block
\* number order, once a callback has returned the height is the block number
\* of the latest callback and the latest block hash is the hash delivered
\* with it; and the height never decreases.
C6_FinalizationOrdering ==
    [][/\ currentHeight_' >= currentHeight_
       /\ (finalizing' = NoCall /\ delivered' # NoCall)
          => /\ currentHeight_' = delivered'.blockNumber
             /\ latestBlockHash_' = delivered'.blockHash]_vars

C6_Witness ==
    /\ lastCall.op = "onBlockFinalized"
    /\ finalizing = NoCall
    /\ delivered.blockNumber = MaxHeight
    /\ currentHeight_ = MaxHeight
    /\ latestBlockHash_ = delivered.blockHash
    /\ latestBlockHash_ \in Hashes

\* C7: registerAgent on a name that is already registered returns false,
\* changes no entry and fires no event.
C7_DuplicateNameRejected ==
    [][(regCall'.op = "registerAgent" /\ regCall'.name \in DOMAIN agents_)
       => /\ regCall'.result = FALSE
          /\ agents_' = agents_
          /\ agentOrder' = agentOrder
          /\ events' = events]_vars

C7_Witness ==
    /\ regCall.op = "registerAgent"
    /\ regCall.result = FALSE
    /\ regCall.name \in DOMAIN agents_
    /\ IsAddressFormat(regCall.info.address)
    /\ agents_[regCall.name] # regCall.info
    /\ \E i \in 1..Len(events) : events[i].agent = regCall.name

\* C8: registerAgent with an address that is not "0x" followed by exactly
\* 40 hex characters returns false, inserts nothing and fires no event,
\* whatever the name.
C8_InvalidAddressRejected ==
    [][(regCall'.op = "registerAgent" /\ ~IsAddressFormat(regCall'.info.address))
       => /\ regCall'.result = FALSE
          /\ agents_' = agents_
          /\ agentOrder' = agentOrder
          /\ events' = events]_vars

C8_Witness ==
    /\ regCall.op = "registerAgent"
    /\ regCall.result = FALSE
    /\ regCall.name \notin DOMAIN agents_
    /\ ~IsAddressFormat(regCall.info.address)
    /\ eventHandler_ # "none"
    /\ events = <<>>

\* The addresses hasPermission is asked about: those stored and the others.
QueriedAddresses ==
    Addresses \cup {agents_[n].address : n \in DOMAIN agents_}

\* C9 as stated: hasPermission(a, p) is true exactly when some entry with
\* address a lists p, also when several names share the address.
C9_AnyEntryGrants ==
    \A a \in QueriedAddresses, p \in Permissions :
        hasPermission(a, p) <=>
            \E n \in DOMAIN agents_ :
                agents_[n].address = a /\ Find(agents_[n].permissions, p)

\* C9 as amended: hasPermission(a, p) is false if no entry has address a,
\* and otherwise true exactly when the entry with address a that comes first
\* in the registry's iteration order lists p; so with one entry at address
\* a, exactly when that entry lists p.
C9_FirstEntryDecides ==
    \A a \in QueriedAddresses, p \in Permissions :
        LET at == {i \in 1..Len(agentOrder) : agents_[agentOrder[i]].address = a}
        IN /\ at = {} => ~hasPermission(a, p)
           /\ at # {} =>
                LET first == CHOOSE i \in at : \A j \in at : i <= j
                IN hasPermission(a, p) <=>
                       Find(agents_[agentOrder[first]].permissions, p)
           /\ Cardinality(at) = 1 =>
                (hasPermission(a, p) <=>
                    \E n \in DOMAIN agents_ :
                        agents_[n].address = a /\ Find(agents_[n].permissions, p))

C9_Witness ==
    /\ regCall.op = "registerAgent"
    /\ regCall.result = TRUE
    /\ \E i, j \in 1..Len(agentOrder) :
          /\ i < j
          /\ agents_[agentOrder[i]].address = agents_[agentOrder[j]].address
          /\ ~Find(agents_[agentOrder[i]].permissions, RequiredPermission)
          /\ Find(agents_[agentOrder[j]].permissions, RequiredPermission)
          /\ \A k \in 1..(i - 1) :
                agents_[agentOrder[k]].address # agents_[agentOrder[i]].address
          /\ ~hasPermission(agents_[agentOrder[i]].address, RequiredPermission)

\* C10: the address of every stored agent and token has the address format
\* (a configuration with another address produces no registry).
C10_StoredAddressesValid ==
    /\ \A n \in DOMAIN agents_ : IsAddressFormat(agents_[n].address)
    /\ \A t \in DOMAIN tokens_ : IsAddressFormat(tokens_[t].address)

\* C11: a registerAgent(name, info) that returns true invokes the installed
\* handler exactly once, with (name, "registered"), and the handler, when
\* it runs, reads info.address from getAgentAddress(name); a registerAgent
\* that returns false invokes no handler.
C11_RegisteredEventFiredOnce ==
    [][regCall'.op = "registerAgent"
       => IF regCall'.result /\ eventHandler_ # "none"
          THEN events' = Append(events,
                           [handler |-> eventHandler_,
                            agent |-> regCall'.name,
                            action |-> "registered",
                            visibleAddress |-> regCall'.info.address])
          ELSE events' = events]_vars

C11_Witness ==
    /\ regCall.op = "registerAgent"
    /\ regCall.result = TRUE
    /\ Len(events) = 1
    /\ events[1].agent = regCall.name
    /\ events[1].action = "registered"
    /\ events[1].visibleAddress = regCall.info.address
    /\ IsAddressFormat(events[1].visibleAddress)

\* C12: setAgentEventHandler(h) makes h the one active handler, replacing
\* the handler installed before: a registerAgent that returns true invokes
\* the handler installed last, once, and no other; with no handler
\* installed it invokes none, and still inserts the entry.
C12_HandlerReplaced ==
    [][/\ regCall'.op = "setAgentEventHandler"
          => eventHandler_' = regCall'.name
       /\ (regCall'.op = "registerAgent" /\ regCall'.result)
          => /\ regCall'.name \notin DOMAIN agents_
             /\ regCall'.name \in DOMAIN agents_'
             /\ agents_'[regCall'.name] = regCall'.info
             /\ eventHandler_' = eventHandler_
             /\ IF eventHandler_ = "none"
                THEN events' = events
                ELSE /\ Len(events') = Len(events) + 1
                     /\ SubSeq(events', 1, Len(events)) = events
                     /\ events'[Len(events')].handler = eventHandler_]_vars

C12_Witness ==
    /\ regCall.op = "registerAgent"
    /\ regCall.result = TRUE
    /\ eventHandler_ = "h2"
    /\ Len(events) = 2
    /\ events[1].handler = "h1"
    /\ events[2].handler = "h2"
    /\ events[2].agent = regCall.name

\* C13: when the only initialize call made so far has failed part-way (it
\* threw at one of its external calls), the controller does not report the
\* consensus as running, and a proposeDreamBlock made next fails with
\* NotRunning and hands nothing to the engine or agent the failed call
\* left behind.
C13_FailedInitializeLeavesUninitialized ==
    [][(/\ started = 0
        /\ lastCall = Call("initialize", "threw")
        /\ lastCall'.op = "proposeDreamBlock")
       => /\ ~isConsensusRunning
          /\ lastCall'.result = "NotRunning"
          /\ submitted' = submitted]_vars

\* C14: once the engine of a successfully initialized controller has
\* stopped working, a proposeDreamBlock fails with NotRunning and hands
\* nothing to the engine.
C14_StoppedEngineRejectsProposals ==
    [][(/\ engine_.status = "stopped"
        /\ lastCall'.op = "proposeDreamBlock")
       => /\ lastCall'.result = "NotRunning"
          /\ submitted' = submitted]_vars

\* C15: the blob handed to the engine determines the pair it was built
\* from: no other (proposerId, payload), over ids and payloads that may
\* contain ":", is encoded as the blob that was submitted.
C15_BlockDataDeterminesPair ==
    submitted.count > 0 =>
        \A dreamerId \in ProposerIds, dreamData \in Payloads :
            Submission(dreamerId, dreamData).blockData = submitted.last.blockData
            => /\ dreamerId = submitted.last.dreamerId
               /\ dreamData = submitted.last.dreamData

\* C16: until the first finalization callback, the height is 0 and the
\* latest block hash is empty, and that is what getBlockHeight() and
\* getLatestDreamBlock() return; and a step that is not part of a
\* finalization callback (initialize, proposeDreamBlock, onBlockProposed,
\* the readers) changes neither.
C16_OnlyFinalizationChangesChain ==
    [][/\ finalizing' = finalizing
          => /\ currentHeight_' = currentHeight_
             /\ latestBlockHash_' = latestBlockHash_
       /\ delivered' = NoCall
          => /\ currentHeight_' = 0
             /\ latestBlockHash_' = ""
             /\ observed'.height \in {-1, 0}
             /\ observed'.hash \in {Unread, ""}]_vars

C16_Witness ==
    /\ delivered = NoCall
    /\ lastCall.op = "onBlockProposed"
    /\ submitted.count = 1
    /\ observed.height = 0
    /\ observed.hash = ""
    /\ currentHeight_ = 0
    /\ latestBlockHash_ = ""

\* C17: the controller calls exitGracefully exactly once on every engine it
\* constructed, before the engine is released: no engine is released
\* without the call, a destroyed controller has shut down every engine it
\* constructed, and a controller that constructed none makes no call.
C17_EveryEngineShutDownGracefully ==
    /\ lifetime.released = lifetime.exited
    /\ lifetime.exited <= constructed
    /\ ~lifetime.alive => lifetime.exited = constructed
    /\ constructed = 0 => lifetime.exited = 0

\* C18: a proposeDreamBlock that fails leaves the engine, the agent, the
\* height, the latest block hash and the configuration as they were and
\* submits nothing; and a proposeDreamBlock made once the consensus is
\* running and the proposer holds the permission returns normally and
\* hands exactly one blob, that of its arguments, to the engine.
C18_FailedProposalChangesNothing ==
    [][\A dreamerId \in ProposerIds, dreamData \in Payloads :
          proposeDreamBlock(dreamerId, dreamData)
          => /\ lastCall'.result # "ok"
                => /\ engine_' = engine_
                   /\ agent_' = agent_
                   /\ currentHeight_' = currentHeight_
                   /\ latestBlockHash_' = latestBlockHash_
                   /\ nodeCount_' = nodeCount_
                   /\ requiredSignatures_' = requiredSignatures_
                   /\ submitted' = submitted
             /\ (/\ isConsensusRunning
                 /\ hasPermission(getAgentAddress(dreamerId), RequiredPermission))
                => /\ lastCall'.result = "ok"
                   /\ submitted'.count = submitted.count + 1
                   /\ submitted'.last.dreamerId = dreamerId
                   /\ submitted'.last.dreamData = dreamData
                   /\ engine_' = engine_
                   /\ agent_' = agent_]_vars

C18_Witness ==
    /\ lastCall = Call("proposeDreamBlock", "ok")
    /\ submitted.count = 1
    /\ submitted.last.running
    /\ submitted.last.authorized
    /\ regCall.op = "registerAgent"
    /\ regCall.result = TRUE
    /\ regCall.name = submitted.last.dreamerId
    /\ initCalls = MaxInit

\* C19: when the two threads have each completed a registerAgent call for
\* the same name, not registered before, with addresses of the valid
\* format, exactly one of the calls has returned true, the entry stored is
\* the AgentInfo of that call, and no more than one event was fired for
\* the name.
C19_OneConcurrentRegistrationWins ==
    LET c1 == registering["t1"]
        c2 == registering["t2"]
    IN (/\ c1.pc = "done"
        /\ c2.pc = "done"
        /\ c1.name = c2.name
        /\ c1.name \notin DOMAIN CfgAlice.agents
        /\ IsAddressFormat(c1.info.address)
        /\ IsAddressFormat(c2.info.address))
       => /\ c1.result # c2.result
          /\ agents_[c1.name] = IF c1.result THEN c1.info ELSE c2.info
          /\ Cardinality({i \in 1..Len(events) : events[i].agent = c1.name}) <= 1

====
